---- MODULE Spec2Model ----
(***************************************************************************)
(* Payroll engine of the office_attendance application                     *)
(* (backend/attendance/models.py): the settings table, the attendance and  *)
(* leave ledgers, the employee row and SalaryRecord.calculate_for_month.   *)
(* Money is held the way the code holds it: decimal.Decimal values under   *)
(* the default context (28 significant digits, ROUND_HALF_EVEN), modelled  *)
(* digit by digit because the quotient base_salary / working_days has 28   *)
(* digits.  Stored 2-decimal fields are integers in hundredths.            *)
(***************************************************************************)
EXTENDS Integers, Sequences, FiniteSets, TLC

(***************************************************************************)
(* decimal.Decimal, default context                                        *)
(***************************************************************************)

\* decimal.getcontext().prec: models.py never changes the default context
prec == 28

\* the decimal digits of a natural number, most significant first
RECURSIVE IntDigits(_)
IntDigits(n) ==
    IF n < 10 THEN <<n>> ELSE Append(IntDigits(n \div 10), n % 10)

\* the natural number a digit string denotes
RECURSIVE DigitsInt(_)
DigitsInt(ds) ==
    IF Len(ds) = 0 THEN 0
    ELSE 10 * DigitsInt(SubSeq(ds, 1, Len(ds) - 1)) + ds[Len(ds)]

Zeros(n) == [i \in 1..n |-> 0]

\* a coefficient without its leading zeros ('0' for zero)
StripZeros(ds) ==
    LET nz == {i \in 1..Len(ds) : ds[i] # 0}
    IN  IF nz = {} THEN <<0>>
        ELSE SubSeq(ds, CHOOSE i \in nz : \A j \in nz : i <= j, Len(ds))

IsZeroDigits(ds) == \A i \in 1..Len(ds) : ds[i] = 0

\* carry propagation: a string of column values (possibly >= 10 or < 0)
\* to the digit string of the same non-negative number; the columns are
\* taken four at a time
RECURSIVE LimbCarry(_, _)
LimbCarry(limb, j) ==
    IF j > Len(limb) THEN [c |-> 0, ls |-> <<>>]
    ELSE LET r == LimbCarry(limb, j + 1)
             t == limb[j] + r.c
         IN  [c |-> t \div 10000, ls |-> <<t % 10000>> \o r.ls]

Pow10(k) == IF k = 0 THEN 1 ELSE IF k = 1 THEN 10 ELSE IF k = 2 THEN 100 ELSE 1000

Carry(xs) ==
    LET n    == Len(xs)
        m    == (n + 3) \div 4
        pad  == [i \in 1..(4 * m) |-> IF i <= 4 * m - n THEN 0 ELSE xs[i - (4 * m - n)]]
        limb == [j \in 1..m |-> pad[4 * j - 3] * 1000 + pad[4 * j - 2] * 100
                                 + pad[4 * j - 1] * 10 + pad[4 * j]]
        r    == LimbCarry(limb, 1)
        digs == [i \in 1..(4 * m) |->
                    (r.ls[(i + 3) \div 4] \div Pow10(3 - ((i - 1) % 4))) % 10]
    IN  StripZeros(IntDigits(r.c) \o digs)

\* Decimal._round_half_even / _round_half_up on a coefficient: keep the
\* first `keep` digits (0 <= keep < Len(ds)), rounding half to even
RoundHalfEven(ds, keep) ==
    LET first    == ds[keep + 1]
        restZero == \A i \in (keep + 2)..Len(ds) : ds[i] = 0
        lastOdd  == keep > 0 /\ ds[keep] % 2 = 1
        up       == first > 5 \/ (first = 5 /\ (~restZero \/ lastOdd))
        kept     == IF keep = 0 THEN <<0>> ELSE SubSeq(ds, 1, keep)
    IN  IF up
        THEN Carry([i \in 1..Len(kept) |->
                       IF i = Len(kept) THEN kept[i] + 1 ELSE kept[i]])
        ELSE kept

\* a Decimal: sign (0 or 1), coefficient digits, exponent
Dec(sign, int, exp) == [sign |-> sign, int |-> int, exp |-> exp]

\* Decimal._fix: round a result to the context precision
Fix(d) ==
    IF IsZeroDigits(d.int) THEN Dec(d.sign, <<0>>, d.exp)
    ELSE IF Len(d.int) <= prec THEN d
    ELSE LET r == RoundHalfEven(d.int, prec)
             e == d.exp + Len(d.int) - prec
         IN  IF Len(r) > prec
             THEN Dec(d.sign, SubSeq(r, 1, prec), e + 1)
             ELSE Dec(d.sign, r, e)

\* Decimal(n) for an int n, and Decimal of a value held in hundredths
\* (a DecimalField with decimal_places=2 read back from the database)
DecOfInt(n) == IF n < 0 THEN Dec(1, IntDigits(-n), 0) ELSE Dec(0, IntDigits(n), 0)
DecOfCents(c) == IF c < 0 THEN Dec(1, IntDigits(-c), -2) ELSE Dec(0, IntDigits(c), -2)

DecIsZero(d) == IsZeroDigits(d.int)

\* Decimal.__gt__ against 0
DecGtZero(d) == d.sign = 0 /\ ~DecIsZero(d)

\* Decimal.__mul__: the exact product, then _fix
RECURSIVE ColumnSum(_, _, _, _)
ColumnSum(a, b, k, i) ==
    IF i > Len(a) THEN 0
    ELSE (IF k - i + 1 >= 1 /\ k - i + 1 <= Len(b) THEN a[i] * b[k - i + 1] ELSE 0)
         + ColumnSum(a, b, k, i + 1)

DecMul(a, b) ==
    LET sign == (a.sign + b.sign) % 2
        s    == IF Len(a.int) <= Len(b.int) THEN a.int ELSE b.int
        l    == IF Len(a.int) <= Len(b.int) THEN b.int ELSE a.int
        cols == [k \in 1..(Len(s) + Len(l) - 1) |-> ColumnSum(s, l, k, 1)]
    IN  Fix(Dec(sign, Carry(cols), a.exp + b.exp))

\* a coefficient rescaled to a lower exponent, and left-padded to a length
ShiftTo(d, exp) == d.int \o Zeros(d.exp - exp)
PadTo(ds, n) == Zeros(n - Len(ds)) \o ds

DigitsLess(a, b) ==
    \E i \in 1..Len(a) : a[i] < b[i] /\ \A j \in 1..(i - 1) : a[j] = b[j]

\* Decimal.__add__: the exact sum of the operands brought to the lower
\* exponent, then _fix (a zero result of unlike signs is +0 under
\* ROUND_HALF_EVEN)
DecAdd(a, b) ==
    LET exp == IF a.exp < b.exp THEN a.exp ELSE b.exp
        x0  == ShiftTo(a, exp)
        y0  == ShiftTo(b, exp)
        n   == IF Len(x0) > Len(y0) THEN Len(x0) ELSE Len(y0)
        x   == PadTo(x0, n)
        y   == PadTo(y0, n)
    IN  IF a.sign = b.sign
        THEN Fix(Dec(a.sign, Carry([i \in 1..n |-> x[i] + y[i]]), exp))
        ELSE IF DigitsLess(x, y)
        THEN Fix(Dec(b.sign, Carry([i \in 1..n |-> y[i] - x[i]]), exp))
        ELSE IF x = y
        THEN Dec(0, <<0>>, exp)
        ELSE Fix(Dec(a.sign, Carry([i \in 1..n |-> x[i] - y[i]]), exp))

\* Decimal.__sub__: self + other.copy_negate()
DecSub(a, b) == DecAdd(a, Dec(1 - b.sign, b.int, b.exp))

\* long division of a digit string by a positive integer below 10^5, four
\* digits at a time: the quotient digits and the remainder
RECURSIVE DivRec(_, _, _, _)
DivRec(limb, den, j, rem) ==
    IF j > Len(limb) THEN [qs |-> <<>>, r |-> rem]
    ELSE LET cur  == rem * 10000 + limb[j]
             rest == DivRec(limb, den, j + 1, cur % den)
         IN  [qs |-> <<cur \div den>> \o rest.qs, r |-> rest.r]

DivDigits(ds, den) ==
    LET n    == Len(ds)
        m    == (n + 3) \div 4
        pad  == [i \in 1..(4 * m) |-> IF i <= 4 * m - n THEN 0 ELSE ds[i - (4 * m - n)]]
        limb == [j \in 1..m |-> pad[4 * j - 3] * 1000 + pad[4 * j - 2] * 100
                                 + pad[4 * j - 1] * 10 + pad[4 * j]]
        d    == DivRec(limb, den, 1, 0)
        digs == [i \in 1..(4 * m) |->
                    (d.qs[(i + 3) \div 4] \div Pow10(3 - ((i - 1) % 4))) % 10]
    IN  [q |-> StripZeros(digs), r |-> d.r]

\* trailing zeros removed from an exact quotient while the exponent is
\* below the ideal one
TowardIdeal(q, exp, ideal) ==
    LET can == {k \in 0..(Len(q) - 1) :
                   /\ exp + k <= ideal
                   /\ \A i \in (Len(q) - k + 1)..Len(q) : q[i] = 0}
        k   == CHOOSE m \in can : \A o \in can : o <= m
    IN  IF exp >= ideal THEN [int |-> q, exp |-> exp]
        ELSE [int |-> SubSeq(q, 1, Len(q) - k), exp |-> exp + k]

\* Decimal.__truediv__ for a non-zero divisor that is an int (exponent 0)
\* and a non-zero dividend: the quotient to prec + 1 digits with a sticky
\* last digit, then _fix
DecDiv(a, b) ==
    LET sign  == (a.sign + b.sign) % 2
        shift == Len(b.int) - Len(a.int) + prec + 1
        exp   == a.exp - b.exp - shift
        d     == DivDigits(a.int \o Zeros(shift), DigitsInt(b.int))
        last  == d.q[Len(d.q)]
        adj   == IF d.r # 0 /\ last % 5 = 0
                 THEN [d.q EXCEPT ![Len(d.q)] = last + 1] ELSE d.q
        ex    == TowardIdeal(d.q, exp, a.exp - b.exp)
    IN  IF d.r # 0 THEN Fix(Dec(sign, adj, exp))
        ELSE Fix(Dec(sign, ex.int, ex.exp))

\* round(x, 2): Decimal.__round__ -> quantize(Decimal('0.01')) under
\* ROUND_HALF_EVEN; the result in hundredths, signed
Round2(d) ==
    LET digits == Len(d.int) + d.exp + 2
        mag == IF d.exp >= -2 THEN DigitsInt(ShiftTo(d, -2))
               ELSE IF digits < 0 THEN 0
               ELSE DigitsInt(RoundHalfEven(d.int, digits))
    IN  IF d.sign = 1 THEN -mag ELSE mag

(***************************************************************************)
(* Strings and the conversions int(str) and Decimal(str)                   *)
(***************************************************************************)

\* a str is a sequence of one-character strings over this alphabet
DigitChars == {"0", "1", "2", "3", "4", "5", "6", "7", "8", "9"}

DigitVal(c) ==
    CASE c = "0" -> 0 [] c = "1" -> 1 [] c = "2" -> 2 [] c = "3" -> 3
      [] c = "4" -> 4 [] c = "5" -> 5 [] c = "6" -> 6 [] c = "7" -> 7
      [] c = "8" -> 8 [] c = "9" -> 9

AllDigits(s) == Len(s) > 0 /\ \A i \in 1..Len(s) : s[i] \in DigitChars

\* str.strip(): leading and trailing blanks removed
Strip(s) ==
    LET nb == {i \in 1..Len(s) : s[i] # " "}
    IN  IF nb = {} THEN <<>>
        ELSE SubSeq(s, CHOOSE i \in nb : \A j \in nb : i <= j,
                       CHOOSE i \in nb : \A j \in nb : j <= i)

HasSign(s) == Len(s) > 0 /\ s[1] \in {"+", "-"}
Unsigned(s) == IF HasSign(s) THEN SubSeq(s, 2, Len(s)) ELSE s

\* int(x): an int is returned as it is; a str is stripped, may carry a sign
\* and must then be all digits, else ValueError
PyInt(x) ==
    IF x.t = "int" THEN [ok |-> TRUE, val |-> x.v]
    ELSE LET s == Strip(x.v)
             u == Unsigned(s)
             m == DigitsInt([i \in 1..Len(u) |-> DigitVal(u[i])])
         IN  IF AllDigits(u)
             THEN [ok |-> TRUE, val |-> IF HasSign(s) /\ s[1] = "-" THEN -m ELSE m]
             ELSE [ok |-> FALSE, val |-> 0]

\* str.lower() on the letters of Decimal's words
Lower(c) ==
    CASE c = "E" -> "e" [] c = "I" -> "i" [] c = "N" -> "n" [] c = "F" -> "f"
      [] c = "T" -> "t" [] c = "Y" -> "y" [] OTHER -> c

\* Decimal('Infinity'): a sign and no coefficient
Infinity(sign) == Dec(sign, <<>>, 0)
IsInfinite(d) == d.int = <<>>

\* Decimal(str): stripped, optional sign, then inf / infinity in any case,
\* or digits with at most one point and at least one digit and an optional
\* exponent (e, optional sign, digits); anything else is InvalidOperation.
\* The NaN words, digit-group underscores and non-ASCII digits are not
\* among the characters of the strings drawn below.
PyDecimal(str) ==
    LET s    == Strip(str)
        u    == [i \in 1..Len(Unsigned(s)) |-> Lower(Unsigned(s)[i])]
        sign == IF HasSign(s) /\ s[1] = "-" THEN 1 ELSE 0
        es   == {i \in 1..Len(u) : u[i] = "e"}
        e    == IF es = {} THEN Len(u) + 1 ELSE CHOOSE i \in es : TRUE
        mant == SubSeq(u, 1, e - 1)
        ex   == SubSeq(u, e + 1, Len(u))
        dots == {i \in 1..Len(mant) : mant[i] = "."}
        p    == IF dots = {} THEN Len(mant) + 1 ELSE CHOOSE i \in dots : TRUE
        ip   == SubSeq(mant, 1, p - 1)
        fp   == SubSeq(mant, p + 1, Len(mant))
        ds   == ip \o fp
        exv  == IF es = {} \/ ~AllDigits(Unsigned(ex)) THEN 0
                ELSE IF ex[1] = "-"
                THEN -DigitsInt([i \in 1..Len(Unsigned(ex)) |-> DigitVal(Unsigned(ex)[i])])
                ELSE DigitsInt([i \in 1..Len(Unsigned(ex)) |-> DigitVal(Unsigned(ex)[i])])
        ok   == /\ Cardinality(dots) <= 1
                /\ AllDigits(ds)
                /\ Cardinality(es) <= 1
                /\ es # {} => AllDigits(Unsigned(ex))
    IN  IF u \in {<<"i", "n", "f">>, <<"i", "n", "f", "i", "n", "i", "t", "y">>}
        THEN [ok |-> TRUE, val |-> Infinity(sign)]
        ELSE IF ok
        THEN [ok |-> TRUE,
              val |-> Dec(sign,
                          StripZeros([i \in 1..Len(ds) |-> DigitVal(ds[i])]),
                          exv - Len(fp))]
        ELSE [ok |-> FALSE, val |-> Dec(0, <<0>>, 0)]

(***************************************************************************)
(* Rows, dates and queries                                                 *)
(***************************************************************************)

\* an optional value: <<>> is None / NULL, <<v>> is the value v
None == <<>>
Some(v) == <<v>>
IsNone(o) == Len(o) = 0

\* a value held by Python: a str or an int
PyStr(s) == [t |-> "str", v |-> s]
PyNum(n) == [t |-> "int", v |-> n]

EMPLOYMENT_TYPES == {"full_time", "part_time", "hourly"}
ATTENDANCE_STATUS == {"present", "absent", "leave", "half_day", "late"}
LEAVE_STATUS == {"pending", "approved", "rejected"}
LEAVE_TYPE_CHOICES == {"normal", "sick", "emergency", "other"}

Date(y, m, d) == [year |-> y, month |-> m, day |-> d]

\* datetime.date ordering
DateLE(a, b) ==
    \/ a.year < b.year
    \/ a.year = b.year /\ a.month < b.month
    \/ a.year = b.year /\ a.month = b.month /\ a.day <= b.day

\* calendar.isleap and calendar.monthrange(year, month)[1]
isleap(y) == (y % 4 = 0 /\ y % 100 # 0) \/ y % 400 = 0

\* a calendar in which February always ends on the 28th
monthrange_without_leap_day(y, m) ==
    IF m = 2 THEN 28
    ELSE IF m \in {4, 6, 9, 11} THEN 30 ELSE 31

monthrange(y, m) ==
    IF m = 2 THEN (IF isleap(y) THEN 29 ELSE 28)
    ELSE IF m \in {4, 6, 9, 11} THEN 30 ELSE 31

\* Attendance.objects.filter(employee=emp, date__range=(first_day, last_day))
atts(attendance, emp, year, month) ==
    {a \in attendance :
        /\ a.employee = emp
        /\ DateLE(Date(year, month, 1), a.date)
        /\ DateLE(a.date, Date(year, month, monthrange(year, month)))}

\* Leave.objects.filter(employee=emp, date__range=(...), status='approved')
leaves_in_month(leaves, emp, year, month) ==
    {l \in leaves :
        /\ l.employee = emp
        /\ DateLE(Date(year, month, 1), l.date)
        /\ DateLE(l.date, Date(year, month, monthrange(year, month)))
        /\ l.status = "approved"}

\* .filter(is_paid=False).count()
unpaid_leaves_count(leaves, emp, year, month) ==
    Cardinality({l \in leaves_in_month(leaves, emp, year, month) : ~l.is_paid})

\* atts.filter(status=...).count()
status_count(attendance, emp, year, month, status) ==
    Cardinality({a \in atts(attendance, emp, year, month) : a.status = status})

\* atts.aggregate(total=Sum('hours_worked'))['total']: NULL hours are
\* skipped, and the sum of no value is NULL
RECURSIVE SumHours(_)
SumHours(rows) ==
    IF rows = {} THEN 0
    ELSE LET r == CHOOSE r \in rows : TRUE
         IN  r.hours_worked[1] + SumHours(rows \ {r})

total_hours(attendance, emp, year, month) ==
    LET withHours == {a \in atts(attendance, emp, year, month) : ~IsNone(a.hours_worked)}
    IN  IF withHours = {} THEN None ELSE Some(SumHours(withHours))

\* atts.filter(status='late').exists()
late_exists(attendance, emp, year, month) ==
    \E a \in atts(attendance, emp, year, month) : a.status = "late"

\* Setting.get(key, default): the stored str, or the default when no row
SettingGet(settings, key, default) ==
    IF IsNone(settings[key]) THEN default ELSE PyStr(settings[key][1])

(***************************************************************************)
(* Employee.get_daily_rate and SalaryRecord.calculate_for_month            *)
(***************************************************************************)

\* the value Setting.get('working_days_per_month', 22) coerced by int(),
\* 22 when int() raises
working_days(wdValue) ==
    LET r == PyInt(wdValue) IN IF r.ok THEN r.val ELSE 22

get_daily_rate_rounded(emp, wdValue) ==
    LET wd == working_days(wdValue)
    IN  IF emp.employee_type = "full_time"
        THEN IF emp.base_salary # 0
             THEN IF wd = 0
                  THEN [raised |-> "DivisionByZero", val |-> Dec(0, <<0>>, -2)]
                  ELSE [raised |-> "",
                        val |-> DecOfCents(Round2(DecDiv(DecOfCents(emp.base_salary),
                                                         DecOfInt(wd))))]
             ELSE [raised |-> "", val |-> Dec(0, <<0>>, -2)]
        ELSE IF emp.employee_type = "part_time"
        THEN [raised |-> "", val |-> DecOfCents(emp.base_salary)]
        ELSE [raised |-> "", val |-> Dec(0, <<0>>, -2)]

\* Employee.get_daily_rate: raises DivisionByZero when a full_time
\* employee with a non-zero base_salary meets working days of 0
get_daily_rate(emp, wdValue) ==
    LET wd == working_days(wdValue)
    IN  IF emp.employee_type = "full_time"
        THEN IF emp.base_salary # 0
             THEN IF wd = 0
                  THEN [raised |-> "DivisionByZero", val |-> Dec(0, <<0>>, -2)]
                  ELSE [raised |-> "", val |-> DecDiv(DecOfCents(emp.base_salary), DecOfInt(wd))]
             ELSE [raised |-> "", val |-> Dec(0, <<0>>, -2)]
        ELSE IF emp.employee_type = "part_time"
        THEN [raised |-> "", val |-> DecOfCents(emp.base_salary)]
        ELSE [raised |-> "", val |-> Dec(0, <<0>>, -2)]

Half == Dec(0, <<5>>, -1)
Zero2 == Dec(0, <<0>>, -2)

\* lines 247-249: the deductions of the full_time branch, from the
\* unpaid days, the half-day count and what get_daily_rate() returned
full_time_deductions(emp, unpaid, half_days, rate) ==
    LET hdd == DecMul(DecMul(DecOfInt(half_days), rate.val), Half)
    IN  [raised |-> rate.raised,
         gross |-> DecOfCents(emp.base_salary),
         unpaid_leave_days |-> unpaid,
         half_day_deductions |-> hdd,
         deductions |-> DecAdd(DecMul(unpaid, rate.val), hdd)]

full_time_pay_without_absent(emp, rd) ==
    full_time_deductions(emp, DecOfInt(rd.unpaid_leaves), rd.half_day,
                         get_daily_rate(emp, rd.working_days_per_month))

\* the full_time branch
full_time_pay(emp, rd) ==
    full_time_deductions(emp, DecAdd(DecOfInt(rd.unpaid_leaves), DecOfInt(rd.absent)),
                         rd.half_day,
                         get_daily_rate(emp, rd.working_days_per_month))

part_time_pay_half_day_worked(emp, rd) ==
    LET rate == DecOfCents(emp.base_salary)
        hdd  == DecMul(DecOfInt(rd.half_day), DecMul(rate, Half))
    IN  [raised |-> "",
         gross |-> DecMul(rate, DecOfInt(rd.present + rd.half_day)),
         unpaid_leave_days |-> Zero2,
         half_day_deductions |-> hdd,
         deductions |-> DecAdd(DecMul(DecOfInt(rd.unpaid_leaves), rate), hdd)]

\* the part_time branch: unpaid_leave_days is left at its initial 0.00
part_time_pay(emp, rd) ==
    LET rate == DecOfCents(emp.base_salary)
        hdd  == DecMul(DecOfInt(rd.half_day), DecMul(rate, Half))
    IN  [raised |-> "",
         gross |-> DecMul(rate, DecOfInt(rd.present)),
         unpaid_leave_days |-> Zero2,
         half_day_deductions |-> hdd,
         deductions |-> DecAdd(DecMul(DecOfInt(rd.unpaid_leaves), rate), hdd)]

hourly_pay_with_leave_deduction(emp, rd) ==
    LET total == IF IsNone(rd.total_hours) \/ rd.total_hours = Some(0)
                 THEN Zero2 ELSE DecOfCents(rd.total_hours[1])
    IN  [raised |-> "",
         gross |-> DecMul(total, DecOfCents(emp.base_salary)),
         unpaid_leave_days |-> DecOfInt(rd.unpaid_leaves),
         half_day_deductions |-> Zero2,
         deductions |-> DecMul(DecOfInt(rd.unpaid_leaves), DecOfCents(emp.base_salary))]

\* the hourly branch
hourly_pay(emp, rd) ==
    LET total == IF IsNone(rd.total_hours) \/ rd.total_hours = Some(0)
                 THEN Zero2 ELSE DecOfCents(rd.total_hours[1])
    IN  [raised |-> "",
         gross |-> DecMul(total, DecOfCents(emp.base_salary)),
         unpaid_leave_days |-> Zero2,
         half_day_deductions |-> Zero2,
         deductions |-> Zero2]

pay(emp, rd) ==
    IF emp.employee_type = "full_time" THEN full_time_pay(emp, rd)
    ELSE IF emp.employee_type = "part_time" THEN part_time_pay(emp, rd)
    ELSE hourly_pay(emp, rd)

\* the bonus an eligible employee is considered for: the employee's own
\* bonus_amount when positive, else the global_bonus setting when it is a
\* non-empty str that Decimal() accepts, else 0.00
\* the two sources tried in the other order: the global bonus before the
\* employee's own
bonus_global_first(emp, rd) ==
    IF /\ ~IsNone(rd.global_bonus) /\ Len(rd.global_bonus[1]) > 0
       /\ PyDecimal(rd.global_bonus[1]).ok
    THEN PyDecimal(rd.global_bonus[1]).val
    ELSE IF emp.bonus_amount > 0 THEN DecOfCents(emp.bonus_amount) ELSE Zero2

bonus_before_disqualification(emp, rd) ==
    IF emp.bonus_amount > 0 THEN DecOfCents(emp.bonus_amount)
    ELSE LET gb == rd.global_bonus
         IN  IF IsNone(gb) \/ Len(gb[1]) = 0 THEN Zero2
             ELSE LET p == PyDecimal(gb[1]) IN IF p.ok THEN p.val ELSE Zero2

disqualified_without_late(unpaid_leave_days, rd) ==
    DecGtZero(unpaid_leave_days)

\* "disqualify bonus if unpaid leaves OR any late marks this month"
disqualified(unpaid_leave_days, rd) ==
    DecGtZero(unpaid_leave_days) \/ rd.late

bonus_logic(emp, rd, unpaid_leave_days) ==
    IF emp.bonus_eligible
    THEN IF disqualified(unpaid_leave_days, rd) THEN Zero2
         ELSE bonus_before_disqualification(emp, rd)
    ELSE Zero2

\* round(d, 2) is d.quantize(Decimal('0.01')): InvalidOperation for an
\* infinity and for a value whose hundredths need more than prec digits
round_raises(d) ==
    \/ IsInfinite(d)
    \/ ~DecIsZero(d) /\ Len(d.int) + d.exp + 2 > prec

\* lines 282-289: net from the unrounded amounts, then each field rounded
\* to hundredths; raised names the exception that leaves the method instead
round_fields(p, bonus) ==
    [raised |-> IF p.raised # "" THEN p.raised
                ELSE IF round_raises(bonus) THEN "InvalidOperation" ELSE "",
     gross_salary |-> Round2(p.gross),
     deductions |-> Round2(p.deductions),
     bonus_applied |-> IF round_raises(bonus) THEN 0 ELSE Round2(bonus),
     net_salary |-> IF round_raises(bonus) THEN 0
                    ELSE Round2(DecAdd(DecSub(p.gross, p.deductions), bonus)),
     half_day_deductions |-> Round2(p.half_day_deductions),
     unpaid_leave_days |-> Round2(p.unpaid_leave_days)]

\* lines 266-280 applied to what the pay branch left
with_bonus(emp, rd, p) == round_fields(p, bonus_logic(emp, rd, p.unpaid_leave_days))

calculate_fields(emp, rd) == with_bonus(emp, rd, pay(emp, rd))

(***************************************************************************)
(* Attendance.calculate_hours                                              *)
(***************************************************************************)

\* times of day are whole seconds since midnight (a TimeField also carries
\* microseconds; they are zero here).  The code computes
\* round(Decimal(seconds / 3600), 2): the quotient is an IEEE double, the
\* Decimal is the double's exact value, and round() is half-even on it.

\* the n with 2^52 <= seconds * 2^n / 3600 < 2^53, for seconds >= 1
mantissa_shift(seconds) ==
    LET RECURSIVE shift(_)
        shift(s) == IF s >= 7200 THEN shift(s \div 2) - 1
                    ELSE IF s < 3600 THEN shift(2 * s) + 1
                    ELSE 52
    IN  shift(seconds)

\* 2^n modulo 3600
pow2_mod_3600(n) ==
    LET RECURSIVE pw(_)
        pw(k) == IF k = 0 THEN 1 ELSE (2 * pw(k - 1)) % 3600
    IN  pw(n)

\* the double seconds / 3600 against the exact quotient: -1 below, 0 equal,
\* 1 above.  The double is the nearest multiple of 2^-n; the remainder of
\* seconds * 2^n by 3600 tells which way the division rounded.
float_error_sign(seconds) ==
    LET r == ((seconds % 3600) * pow2_mod_3600(mantissa_shift(seconds))) % 3600
    IN  IF r = 0 THEN 0 ELSE IF r > 1800 THEN 1 ELSE -1

\* round(Decimal(seconds / 3600), 2) in hundredths.  The double's error is
\* far below the distance of a non-tie from the rounding boundary, so it
\* decides the result only where seconds / 3600 is exactly half a hundredth.
round_hours(seconds) ==
    LET q == seconds \div 36
        rem == seconds % 36
    IN  IF rem > 18 THEN q + 1
        ELSE IF rem < 18 THEN q
        ELSE IF float_error_sign(seconds) = 1 THEN q + 1
        ELSE IF float_error_sign(seconds) = -1 THEN q
        ELSE IF q % 2 = 0 THEN q ELSE q + 1

\* dt_out - dt_in in seconds, a day added when dt_out < dt_in
elapsed_same_day(time_in, time_out) ==
    IF time_out < time_in THEN time_in - time_out ELSE time_out - time_in

elapsed(time_in, time_out) ==
    IF time_out < time_in THEN time_out + 86400 - time_in
    ELSE time_out - time_in

HoursBetween(time_in, time_out) == round_hours(elapsed(time_in, time_out))

\* the hours_worked that Attendance.save() stores, in hundredths
calculate_hours(time_in, time_out, status, emp) ==
    IF ~IsNone(time_in) /\ ~IsNone(time_out)
    THEN Some(HoursBetween(time_in[1], time_out[1]))
    ELSE IF emp.employee_type \in {"full_time", "part_time"} /\ status = "present"
    THEN Some(emp.working_hours)
    ELSE None

(***************************************************************************)
(* State                                                                   *)
(***************************************************************************)

VARIABLES
    employees,       \* Employee table: emp_id -> row
    settings,        \* Setting table: key -> optional value
    attendance,      \* Attendance table: a set of rows, (employee, date) unique
    leaves,          \* Leave table: a set of rows, (employee, date) unique
    salary_records,  \* SalaryRecord table: (employee, year, month) unique
    last,            \* the handler that returned last and what it raised
    calls            \* the calculate_for_month invocations in progress

vars == <<employees, settings, attendance, leaves, salary_records, last, calls>>

SettingKeys == {"working_days_per_month", "global_bonus"}

AttendanceRow(e, d, tin, tout, st, emp) ==
    [employee |-> e, date |-> d, time_in |-> tin, time_out |-> tout,
     hours_worked |-> calculate_hours(tin, tout, st, emp), status |-> st]

LeaveRow(e, d, lt, paid, st, reason, amended) ==
    [employee |-> e, date |-> d, leave_type |-> lt, is_paid |-> paid,
     status |-> st, reason |-> reason, amended |-> amended]

\* SalaryRecord(employee=e, year=y, month=m): the field defaults are 0.00
NewSalaryRecord(e, y, m) ==
    [employee |-> e, year |-> y, month |-> m,
     gross_salary |-> 0, deductions |-> 0, bonus_applied |-> 0,
     net_salary |-> 0, half_day_deductions |-> 0, unpaid_leave_days |-> 0]

SameKey(r, e, y, m) == r.employee = e /\ r.year = y /\ r.month = m

\* what the queries of calculate_for_month return from the given tables
ReadsFrom(att, lvs, stg, e, y, m) ==
    [unpaid_leaves |-> unpaid_leaves_count(lvs, e, y, m),
     absent |-> status_count(att, e, y, m, "absent"),
     half_day |-> status_count(att, e, y, m, "half_day"),
     present |-> status_count(att, e, y, m, "present"),
     total_hours |-> total_hours(att, e, y, m),
     late |-> late_exists(att, e, y, m),
     working_days_per_month |->
         SettingGet(stg, "working_days_per_month", PyNum(22)),
     global_bonus |-> stg["global_bonus"]]

\* what the queries of calculate_for_month return in the current state
Reads(e, y, m) == ReadsFrom(attendance, leaves, settings, e, y, m)

assign_fields_accumulating(self, f) ==
    [self EXCEPT !.gross_salary = f.gross_salary,
                 !.deductions = self.deductions + f.deductions,
                 !.bonus_applied = f.bonus_applied,
                 !.net_salary = f.net_salary,
                 !.half_day_deductions = f.half_day_deductions,
                 !.unpaid_leave_days = f.unpaid_leave_days]

\* lines 284-289: the six assignments to self
assign_fields(self, f) ==
    [self EXCEPT !.gross_salary = f.gross_salary,
                 !.deductions = f.deductions,
                 !.bonus_applied = f.bonus_applied,
                 !.net_salary = f.net_salary,
                 !.half_day_deductions = f.half_day_deductions,
                 !.unpaid_leave_days = f.unpaid_leave_days]

\* what `last` records of a handler: its name, the SalaryRecord key it ran
\* for, the exception it raised ("" for none), and whether the handler
\* that returned just before it was a calculate_for_month of the same key
\* that raised nothing
Returned(op, e, y, m, raised) ==
    [op |-> op, employee |-> e, year |-> y, month |-> m, raised |-> raised,
     repeat |-> /\ op = "calculate_for_month"
                /\ last.op = "calculate_for_month" /\ last.raised = ""
                /\ last.employee = e /\ last.year = y /\ last.month = m]

\* SalaryRecord.calculate_for_month run without interleaving, on an instance
\* the caller either built (fresh: self.save() is an INSERT, which the
\* unique_together constraint refuses when the key has a row) or loaded from
\* the table (self.save() is an UPDATE of that row)
calculate_for_month(e, y, m) ==
    \E f \in {calculate_fields(employees[e], Reads(e, y, m))}, fresh \in BOOLEAN :
       LET existing == {r \in salary_records : SameKey(r, e, y, m)}
           self == IF fresh THEN NewSalaryRecord(e, y, m)
                   ELSE CHOOSE r \in existing : TRUE
       IN  /\ ~fresh => existing # {}
           /\ IF f.raised # ""
              THEN /\ last' = Returned("calculate_for_month", e, y, m, f.raised)
                   /\ UNCHANGED salary_records
              ELSE IF fresh /\ existing # {}
              THEN /\ last' = Returned("calculate_for_month", e, y, m, "IntegrityError")
                   /\ UNCHANGED salary_records
              ELSE /\ salary_records' = (salary_records \ existing) \cup {assign_fields(self, f)}
                   /\ last' = Returned("calculate_for_month", e, y, m, "")
           /\ UNCHANGED <<employees, settings, attendance, leaves, calls>>

(***************************************************************************)
(* calculate_for_month query by query: the method runs outside any         *)
(* transaction and under no lock, so other handlers run between its        *)
(* queries and its self.save()                                             *)
(***************************************************************************)

\* the threads that may be inside calculate_for_month
Callers == {"c1", "c2"}

NoReads ==
    [unpaid_leaves |-> 0, absent |-> 0, half_day |-> 0, present |-> 0,
     total_hours |-> None, late |-> FALSE,
     working_days_per_month |-> PyNum(22), global_bonus |-> None]

\* a caller outside the method.  stale records that a ledger write
\* returned after the invocation began; seen holds every attendance table
\* that existed between the invocation's entry and its return.
Idle ==
    [pc |-> "idle", fresh |-> TRUE, self |-> NewSalaryRecord("E1", 0, 0),
     rd |-> NoReads, stale |-> FALSE, raised |-> "", seen |-> {}]

\* the query that follows the pay branch: Setting.get('global_bonus') when
\* the employee is eligible and has no bonus of their own, then the late
\* check unless unpaid_leave_days > 0 already decides the `or`
LateOrSave(emp, rd) ==
    IF (emp.employee_type = "full_time" /\ rd.unpaid_leaves + rd.absent > 0)
    THEN "save" ELSE "late"

BonusReads(emp, rd) ==
    IF ~emp.bonus_eligible THEN "save"
    ELSE IF emp.bonus_amount > 0 THEN LateOrSave(emp, rd)
    ELSE "global_bonus"

FirstRead(emp) ==
    IF emp.employee_type = "full_time" THEN "unpaid_leaves"
    ELSE IF emp.employee_type = "part_time" THEN "present"
    ELSE "total_hours"

\* the queries in the order the method issues them
NextRead(emp, rd, pc) ==
    IF pc = "global_bonus" THEN LateOrSave(emp, rd)
    ELSE IF pc = "late" THEN "save"
    ELSE IF emp.employee_type = "full_time"
    THEN CASE pc = "unpaid_leaves" -> "absent"
           [] pc = "absent" -> "half_day"
           [] pc = "half_day" -> "working_days_per_month"
           [] pc = "working_days_per_month" -> BonusReads(emp, rd)
    ELSE IF emp.employee_type = "part_time"
    THEN CASE pc = "present" -> "unpaid_leaves"
           [] pc = "unpaid_leaves" -> "half_day"
           [] pc = "half_day" -> BonusReads(emp, rd)
    ELSE BonusReads(emp, rd)

\* a caller enters the method on an instance it built (fresh) or loaded
begin(c, e, y, m) ==
    /\ calls[c].pc = "idle"
    /\ \E fresh \in BOOLEAN :
          LET existing == {r \in salary_records : SameKey(r, e, y, m)}
          IN  /\ ~fresh => existing # {}
              /\ calls' = [calls EXCEPT ![c] =
                     [pc |-> FirstRead(employees[e]), fresh |-> fresh,
                      self |-> IF fresh THEN NewSalaryRecord(e, y, m)
                               ELSE CHOOSE r \in existing : TRUE,
                      rd |-> NoReads, stale |-> FALSE, raised |-> "",
                      seen |-> {attendance}]]
    /\ UNCHANGED <<employees, settings, attendance, leaves, salary_records, last>>

\* the next query of the method runs against the tables as they are now
read(c) ==
    LET s == calls[c]
        k == s.self
        now == Reads(k.employee, k.year, k.month)
        rd == [s.rd EXCEPT ![s.pc] = now[s.pc]]
    IN  /\ s.pc \notin {"idle", "save", "done"}
        /\ calls' = [calls EXCEPT ![c].rd = rd,
                                  ![c].pc = NextRead(employees[k.employee], rd, s.pc)]
        /\ UNCHANGED <<employees, settings, attendance, leaves, salary_records, last>>

\* lines 282-291: the fields are computed from what the queries returned,
\* assigned, and self.save() inserts the row (refused by unique_together
\* when the key has one) or updates the loaded row
save(c) ==
    LET s == calls[c]
        k == s.self
    IN  /\ s.pc = "save"
        /\ \E f \in {calculate_fields(employees[k.employee], s.rd)} :
              LET existing == {r \in salary_records : SameKey(r, k.employee, k.year, k.month)}
                  raised == IF f.raised # "" THEN f.raised
                            ELSE IF s.fresh /\ existing # {} THEN "IntegrityError"
                            ELSE ""
              IN  /\ salary_records' =
                        IF raised # "" THEN salary_records
                        ELSE (salary_records \ existing) \cup {assign_fields(k, f)}
                  /\ last' = Returned("calculate_for_month", k.employee, k.year, k.month, raised)
                  /\ calls' = [calls EXCEPT ![c].pc = "done", ![c].raised = raised]
        /\ UNCHANGED <<employees, settings, attendance, leaves>>

\* an Attendance object as the writer filled it, hours_worked included
AttendanceInstance(e, d, tin, tout, hw, st) ==
    [employee |-> e, date |-> d, time_in |-> tin, time_out |-> tout,
     hours_worked |-> hw, status |-> st]

\* save() with self.calculate_hours() left out: the writer's value is stored
keep_supplied_hours(self, emp) == self

\* self.calculate_hours() as save() calls it: it overwrites self.hours_worked
self_calculate_hours(self, emp) ==
    [self EXCEPT !.hours_worked =
        calculate_hours(self.time_in, self.time_out, self.status, emp)]

\* Attendance.save(): hours_worked is derived, then the row of
\* (employee, date) is inserted or updated
attendance_save(e, d, tin, tout, hw, st) ==
    /\ attendance' = {a \in attendance : ~(a.employee = e /\ a.date = d)}
                        \cup {self_calculate_hours(AttendanceInstance(e, d, tin, tout, hw, st),
                                                   employees[e])}
    /\ attendance' # attendance
    /\ last' = Returned("attendance_save", e, d.year, d.month, "") @@ [supplied |-> hw]
    /\ calls' = [c \in Callers |->
                   IF calls[c].pc = "idle" THEN calls[c]
                   ELSE IF calls[c].pc = "done" THEN [calls[c] EXCEPT !.stale = TRUE]
                   ELSE [calls[c] EXCEPT !.stale = TRUE,
                                         !.seen = @ \cup {attendance'}]]
    /\ UNCHANGED <<employees, settings, leaves, salary_records>>

(***************************************************************************)
(* SpecPayroll: the database is drawn from bounded sets and                *)
(* calculate_for_month is applied to it                                    *)
(***************************************************************************)

\* at most this many attendance and leave rows together
MaxRows == 3

EmployeeInput(type, base, bonus, eligible) ==
    [employee_type |-> type, base_salary |-> base, bonus_amount |-> bonus,
     bonus_eligible |-> eligible, working_hours |-> 800, paid_leave_quota |-> 0,
     is_active |-> TRUE]

\* employees of every type: the worked examples' 30000.00 a month and
\* 1000.00 a day, bases of one cent (every half-day and every 8.50 hours is
\* a rounding tie), a zero base; with an own bonus, with none (the global
\* bonus applies) and not eligible
EmployeeInputs ==
    { EmployeeInput("full_time", 3000000, 10000, TRUE),
      EmployeeInput("full_time", 1, 0, TRUE),
      EmployeeInput("full_time", 0, 10000, FALSE),
      EmployeeInput("part_time", 100000, 10000, TRUE),
      EmployeeInput("hourly", 1, 0, TRUE) }

SettingsInput(wd, gb) ==
    [k \in SettingKeys |-> IF k = "working_days_per_month" THEN wd ELSE gb]

\* the Setting table: no rows; a zero divisor with a global bonus; an
\* unparsable divisor with a sub-cent global bonus; a negative divisor
\* with an unparsable global bonus
SettingsInputs ==
    { SettingsInput(None, None),
      SettingsInput(Some(<<"0">>), Some(<<"5", "0">>)),
      SettingsInput(Some(<<"a", "b", "c">>), Some(<<"0", ".", "0", "0", "5">>)),
      SettingsInput(Some(<<"-", "7">>), Some(<<"a", "b", "c">>)) }

\* the computed month and the dates rows may carry: its first and last day
PayrollPeriod == [year |-> 2024, month |-> 2]
PayrollYear == PayrollPeriod.year
PayrollMonth == PayrollPeriod.month
PayrollDates ==
    {Date(PayrollYear, PayrollMonth, 1),
     Date(PayrollYear, PayrollMonth, monthrange(PayrollYear, PayrollMonth))}

\* what one date's attendance row may be: every status without times, and
\* a row with times (09:00 to 17:30, 8.50 hours)
AttendanceInputs ==
    {[status |-> st, time_in |-> None, time_out |-> None] : st \in ATTENDANCE_STATUS}
    \cup {[status |-> "present", time_in |-> Some(32400), time_out |-> Some(63000)]}

LeaveInputs ==
    {[is_paid |-> FALSE, status |-> "approved"], [is_paid |-> TRUE, status |-> "approved"],
     [is_paid |-> FALSE, status |-> "pending"]}

\* a SalaryRecord row left by an earlier computation or an admin edit
\* (drawn with the ledgers that have no leave row)
StaleRecord ==
    [employee |-> "E1", year |-> PayrollYear, month |-> PayrollMonth,
     gross_salary |-> 12345, deductions |-> 678, bonus_applied |-> 90,
     net_salary |-> 11, half_day_deductions |-> 22, unpaid_leave_days |-> 300]

NoCall ==
    [op |-> "none", employee |-> "E1", year |-> PayrollYear, month |-> PayrollMonth,
     raised |-> "", repeat |-> FALSE]

InitPayroll ==
    /\ employees \in [{"E1"} -> EmployeeInputs]
    /\ settings \in SettingsInputs
    /\ \E af \in [PayrollDates -> AttendanceInputs \cup {None}],
          lf \in [PayrollDates -> LeaveInputs \cup {None}] :
          /\ Cardinality({d \in PayrollDates : af[d] # None})
               + Cardinality({d \in PayrollDates : lf[d] # None}) <= MaxRows
          /\ attendance = {AttendanceRow("E1", d, af[d].time_in, af[d].time_out,
                                         af[d].status, employees["E1"]) :
                             d \in {x \in PayrollDates : af[x] # None}}
          /\ leaves = {LeaveRow("E1", d, "normal", lf[d].is_paid, lf[d].status, "", FALSE) :
                         d \in {x \in PayrollDates : lf[x] # None}}
    /\ salary_records \in {{}} \cup (IF leaves = {} THEN {{StaleRecord}} ELSE {})
    /\ last = NoCall
    /\ calls = [c \in Callers |-> Idle]

NextPayroll == calculate_for_month("E1", PayrollYear, PayrollMonth)

SpecPayroll == InitPayroll /\ [][NextPayroll]_vars

(***************************************************************************)
(* Properties of calculate_for_month, checked under SpecPayroll            *)
(***************************************************************************)

\* the employee and month SpecPayroll computes, and the row stored for them
Emp == employees["E1"]
Rec == CHOOSE r \in salary_records : SameKey(r, "E1", PayrollYear, PayrollMonth)

\* calculate_for_month returned last, raised nothing, and so stored Rec
\* from the tables as they are now
Computed == last.op = "calculate_for_month" /\ last.raised = ""

InMonth(d) == d.year = PayrollYear /\ d.month = PayrollMonth
MonthAttendance(st) ==
    {a \in attendance : a.employee = "E1" /\ InMonth(a.date) /\ a.status = st}
UnpaidLeaves ==
    {l \in leaves : /\ l.employee = "E1" /\ InMonth(l.date)
                    /\ l.status = "approved" /\ ~l.is_paid}

\* n / d rounded to the nearest integer, ties to the even one
RefRound(n, d) ==
    LET nn == IF d < 0 THEN -n ELSE n
        dd == IF d < 0 THEN -d ELSE d
        q  == nn \div dd
        r  == nn % dd
    IN  IF 2 * r < dd THEN q
        ELSE IF 2 * r > dd THEN q + 1
        ELSE IF q % 2 = 0 THEN q ELSE q + 1

\* c is n / d rounded to a nearest integer (in a tie, either neighbour)
RefNearest(c, n, d) ==
    LET nn == IF d < 0 THEN -n ELSE n
        dd == IF d < 0 THEN -d ELSE d
        diff == c * dd - nn
    IN  2 * (IF diff < 0 THEN -diff ELSE diff) <= dd

\* the working days the stored setting stands for: 22 when the row is
\* absent or its value is no integer
RefWorkingDays ==
    LET v == settings["working_days_per_month"]
    IN  CASE v = None -> 22
          [] v = Some(<<"a", "b", "c">>) -> 22
          [] v = Some(<<"0">>) -> 0
          [] v = Some(<<"-", "7">>) -> -7

\* C1: while an attendance entry of the month has status late, the bonus
\* the computation stored is 0, for every employment type, eligibility,
\* own bonus and global bonus
C1_LateForcesZeroBonus ==
    Computed /\ MonthAttendance("late") # {} => Rec.bonus_applied = 0

C1_Witness ==
    /\ Computed /\ MonthAttendance("late") # {}
    /\ Emp.bonus_eligible /\ Emp.bonus_amount > 0
    /\ Rec.bonus_applied = 0 /\ Rec.gross_salary > 0

\* C2 as claimed: an approved unpaid leave in the month forces a stored
\* bonus of 0 for full_time and for part_time employees
C2_UnpaidLeaveForcesZeroBonus ==
    /\ Computed
    /\ Emp.employee_type \in {"full_time", "part_time"}
    /\ UnpaidLeaves # {}
    => Rec.bonus_applied = 0

\* C3: for a full_time employee the stored gross is the base salary, the
\* stored unpaid days are the approved unpaid leaves plus the absent
\* entries, and half-day deductions and deductions are those counts times
\* base / working days, each rounded to a nearest cent once, at the end
C3_FullTimeFields ==
    Computed /\ Emp.employee_type = "full_time" =>
        LET U == Cardinality(UnpaidLeaves) + Cardinality(MonthAttendance("absent"))
            H == Cardinality(MonthAttendance("half_day"))
            B == Emp.base_salary
            W == RefWorkingDays
        IN  /\ Rec.gross_salary = B
            /\ Rec.unpaid_leave_days = 100 * U
            /\ IF B = 0
               THEN Rec.half_day_deductions = 0 /\ Rec.deductions = 0
               ELSE /\ RefNearest(Rec.half_day_deductions, H * B, 2 * W)
                    /\ RefNearest(Rec.deductions, (2 * U + H) * B, 2 * W)

C3_Witness ==
    /\ Computed /\ Emp.employee_type = "full_time" /\ Emp.base_salary = 3000000
    /\ UnpaidLeaves # {} /\ MonthAttendance("absent") # {}
    /\ MonthAttendance("half_day") # {}
    /\ Rec.unpaid_leave_days = 200 /\ Rec.deductions > Rec.half_day_deductions
    /\ Rec.half_day_deductions > 0

\* the worked example's month: full_time, 30000.00, 22 working days, two
\* approved unpaid leaves, one half_day entry and no absent entry
WorkedExample ==
    /\ Computed /\ Emp.employee_type = "full_time" /\ Emp.base_salary = 3000000
    /\ RefWorkingDays = 22
    /\ Cardinality(UnpaidLeaves) = 2
    /\ Cardinality(MonthAttendance("half_day")) = 1
    /\ MonthAttendance("absent") = {}

\* C4 as claimed: the worked example stores deductions of 3409.10
C4_AsClaimed ==
    WorkedExample =>
        /\ Rec.deductions = 340910
        /\ Rec.net_salary = 3000000 - 340910 + Rec.bonus_applied

\* C4 amended: the worked example stores half-day deductions of 681.82,
\* deductions of 3409.09 (2.5 x 30000 / 22 rounded once) and a net salary
\* of 30000 - 3409.09 + bonus_applied
C4_WorkedExample ==
    WorkedExample =>
        /\ Rec.half_day_deductions = 68182
        /\ Rec.deductions = 340909
        /\ Rec.net_salary = 3000000 - 340909 + Rec.bonus_applied

C4_Witness == WorkedExample /\ Rec.gross_salary = 3000000 /\ Rec.unpaid_leave_days = 200

\* C5 as claimed: a full_time month without absent entry, half_day entry
\* and approved unpaid leave stores no deductions and a net salary of
\* base_salary + bonus_applied
C5_CleanMonthNet ==
    /\ Computed /\ Emp.employee_type = "full_time"
    /\ MonthAttendance("absent") = {} /\ MonthAttendance("half_day") = {}
    /\ UnpaidLeaves = {}
    => /\ Rec.deductions = 0
       /\ Rec.net_salary = Emp.base_salary + Rec.bonus_applied

\* C6: for a part_time employee the stored gross is the base salary times
\* the number of present entries of the month; entries of any other status
\* add nothing
C6_PartTimeGross ==
    Computed /\ Emp.employee_type = "part_time" =>
        Rec.gross_salary = Emp.base_salary * Cardinality(MonthAttendance("present"))

C6_Witness ==
    /\ Computed /\ Emp.employee_type = "part_time"
    /\ Cardinality(MonthAttendance("present")) = 1
    /\ \E st \in ATTENDANCE_STATUS \ {"present"} : MonthAttendance(st) # {}
    /\ Rec.gross_salary = Emp.base_salary /\ Emp.base_salary > 0

\* the hours of the month's attendance entries, a NULL counting as 0
RECURSIVE RefHours(_)
RefHours(rows) ==
    IF rows = {} THEN 0
    ELSE LET a == CHOOSE a \in rows : TRUE
         IN  (IF a.hours_worked = None THEN 0 ELSE a.hours_worked[1])
             + RefHours(rows \ {a})

MonthHours == RefHours({a \in attendance : a.employee = "E1" /\ InMonth(a.date)})

\* C7: for an hourly employee the stored gross is the month's hours times
\* the base salary, and unpaid days, half-day deductions and deductions
\* are 0 whatever leaves and entries exist
C7_HourlyFields ==
    Computed /\ Emp.employee_type = "hourly" =>
        /\ Rec.gross_salary = RefRound(MonthHours * Emp.base_salary, 100)
        /\ Rec.unpaid_leave_days = 0
        /\ Rec.half_day_deductions = 0
        /\ Rec.deductions = 0

C7_Witness ==
    /\ Computed /\ Emp.employee_type = "hourly"
    /\ MonthHours = 850 /\ Rec.gross_salary = 8
    /\ UnpaidLeaves # {}
    /\ MonthAttendance("absent") \cup MonthAttendance("half_day") # {}
    /\ Rec.deductions = 0

\* C8: a calculate_for_month that follows a calculate_for_month of the
\* same key, with no write between them, leaves the SalaryRecord table as
\* the first one left it
C8_Idempotent ==
    [][last'.op = "calculate_for_month" /\ last'.raised = "" /\ last'.repeat
         => salary_records' = salary_records]_vars

C8_Witness ==
    /\ Computed /\ last.repeat
    /\ Rec.deductions > 0 /\ Rec.bonus_applied > 0 /\ Rec.half_day_deductions > 0

\* C9 as claimed: no stored working_days_per_month makes the computation
\* raise
C9_NeverRaises ==
    last.op = "calculate_for_month" => last.raised # "DivisionByZero"

(***************************************************************************)
(* Spec: two callers compute the same key while attendance is written      *)
(***************************************************************************)

\* a full_time employee with a bonus of their own and an hourly one who
\* takes the global bonus
RaceEmployees ==
    { EmployeeInput("full_time", 3000000, 10000, TRUE),
      EmployeeInput("hourly", 1, 0, TRUE) }
RaceDate == Date(PayrollYear, PayrollMonth, 1)
\* what the racing attendance writes store for RaceDate
RaceWrites ==
    { [status |-> "absent", time |-> None], [status |-> "late", time |-> None],
      [status |-> "present", time |-> Some(32400)] }

\* the ledger is empty and the key has no row, or the row an earlier
\* computation of the empty ledger stored
Init ==
    /\ employees \in [{"E1"} -> RaceEmployees]
    /\ settings = SettingsInput(None, Some(<<"5", "0">>))
    /\ attendance = {}
    /\ leaves = {}
    /\ salary_records \in
         {{}, {assign_fields(NewSalaryRecord("E1", PayrollYear, PayrollMonth),
                             calculate_fields(employees["E1"],
                                              Reads("E1", PayrollYear, PayrollMonth)))}}
    /\ last = NoCall
    /\ calls = [c \in Callers |-> Idle]

Next ==
    \/ \E c \in Callers : begin(c, "E1", PayrollYear, PayrollMonth)
    \/ \E c \in Callers : read(c)
    \/ \E c \in Callers : save(c)
    \/ \E w \in RaceWrites :
          attendance_save("E1", RaceDate, w.time, w.time, None, w.status)

Spec == Init /\ [][Next]_vars

\* C10 as claimed: once both invocations have returned, and one of them
\* began after the last attendance write and saved without an error, the
\* stored row is the one computed from the ledger as it is: the
\* invocation that read the older ledger has not overwritten it
C10_LatestStateWins ==
    /\ \A c \in Callers : calls[c].pc = "done"
    /\ \E c \in Callers : ~calls[c].stale /\ calls[c].raised = ""
    => /\ salary_records # {}
       /\ Rec = assign_fields(Rec, calculate_fields(Emp, Reads("E1", PayrollYear, PayrollMonth)))

\* C11 as claimed: the fields an invocation computed and saved are the
\* fields computed from one attendance table that existed while it ran
C11_SnapshotReads ==
    \A c \in Callers :
        calls[c].pc = "done" /\ calls[c].raised = "" =>
            \E att \in calls[c].seen :
                calculate_fields(Emp, calls[c].rd)
                    = calculate_fields(Emp, ReadsFrom(att, leaves, settings,
                                                      "E1", PayrollYear, PayrollMonth))

(***************************************************************************)
(* SpecHours: one attendance entry is saved with times of every kind       *)
(***************************************************************************)

\* employees of each type, with different working_hours
HoursEmployees ==
    { [EmployeeInput("full_time", 3000000, 0, FALSE) EXCEPT !.working_hours = 800],
      [EmployeeInput("part_time", 100000, 0, FALSE) EXCEPT !.working_hours = 450],
      [EmployeeInput("hourly", 1500, 0, FALSE) EXCEPT !.working_hours = 800] }

\* times of day in seconds: 00:00:00, 00:00:10, 00:00:18 and 00:00:54
\* (0.005 and 0.015 hours after midnight), 00:07:30 (0.125 hours), 06:00,
\* 22:00 and 23:59:59
TimeInputs == {0, 10, 18, 54, 450, 21600, 79200, 86399}

OptionalTimes == {None} \cup {Some(s) : s \in TimeInputs}

InitHours ==
    /\ employees \in [{"E1"} -> HoursEmployees]
    /\ settings = SettingsInput(None, None)
    /\ attendance = {}
    /\ leaves = {}
    /\ salary_records = {}
    /\ last = NoCall
    /\ calls = [c \in Callers |-> Idle]

NextHours ==
    \E tin \in OptionalTimes, tout \in OptionalTimes, st \in ATTENDANCE_STATUS :
        attendance_save("E1", RaceDate, tin, tout, None, st)

SpecHours == InitHours /\ [][NextHours]_vars

\* the reference rule for one entry: with both times, the elapsed seconds
\* (a day added when time_out is earlier) as hours to the nearest hundredth,
\* either neighbour where two are equally near, and at most top hundredths;
\* otherwise working_hours for a present full_time or part_time employee
\* and null for everyone else
HoursRule(a, top) ==
    IF ~IsNone(a.time_in) /\ ~IsNone(a.time_out)
    THEN /\ ~IsNone(a.hours_worked)
         /\ \E s \in {IF a.time_out[1] < a.time_in[1]
                      THEN a.time_out[1] - a.time_in[1] + 24 * 3600
                      ELSE a.time_out[1] - a.time_in[1]} :
                /\ 36 * a.hours_worked[1] - 18 <= s
                /\ s <= 36 * a.hours_worked[1] + 18
         /\ 0 <= a.hours_worked[1] /\ a.hours_worked[1] <= top
         /\ (a.time_in = Some(79200) /\ a.time_out = Some(21600)
                => a.hours_worked = Some(800))
    ELSE IF /\ employees[a.employee].employee_type \in {"full_time", "part_time"}
            /\ a.status = "present"
    THEN a.hours_worked = Some(employees[a.employee].working_hours)
    ELSE IsNone(a.hours_worked)

\* C12 as claimed: every saved entry follows the reference rule, and hours
\* computed from two times always lie in [0, 24), that is, are at most 23.99
C12_AsClaimed == \A a \in attendance : HoursRule(a, 2399)

\* C12: every saved entry follows the reference rule (elapsed time with the
\* overnight day added, rounded to the nearest hundredth; 22:00 to 06:00 is
\* 8.00; working_hours or null when a time is missing), and hours computed
\* from two times lie in [0, 24.00], the upper end included
C12_HoursRule == \A a \in attendance : HoursRule(a, 2400)

\* an overnight entry of 23:59:50 elapsed is stored with 24.00 hours
C12_Witness ==
    \E a \in attendance :
        /\ a.time_in = Some(10) /\ a.time_out = Some(0)
        /\ a.hours_worked = Some(2400)

(***************************************************************************)
(* SpecAttendance: entries of two employees are created and updated by     *)
(* writers that fill in hours_worked themselves                            *)
(***************************************************************************)

AttendanceKeys ==
    { [employee |-> "E1", date |-> Date(PayrollYear, PayrollMonth, 1)],
      [employee |-> "E1", date |-> Date(PayrollYear, PayrollMonth, 2)],
      [employee |-> "E2", date |-> Date(PayrollYear, PayrollMonth, 1)] }

\* no times, 09:00 to 17:30, 22:00 to 06:00, and a time_in alone
TimePairs ==
    { [time_in |-> None, time_out |-> None],
      [time_in |-> Some(32400), time_out |-> Some(63000)],
      [time_in |-> Some(79200), time_out |-> Some(21600)],
      [time_in |-> Some(32400), time_out |-> None] }

\* the hours_worked a writer puts on the object: nothing, 0.00 and 99.99
SuppliedHours == {None, Some(0), Some(9999)}

InitAttendance ==
    /\ employees = [e \in {"E1", "E2"} |->
                      IF e = "E1" THEN EmployeeInput("full_time", 3000000, 0, FALSE)
                      ELSE EmployeeInput("hourly", 1500, 0, FALSE)]
    /\ settings = SettingsInput(None, None)
    /\ attendance = {}
    /\ leaves = {}
    /\ salary_records = {}
    /\ last = NoCall
    /\ calls = [c \in Callers |-> Idle]

NextAttendance ==
    \E k \in AttendanceKeys, t \in TimePairs, hw \in SuppliedHours,
       st \in {"present", "absent"} :
        attendance_save(k.employee, k.date, t.time_in, t.time_out, hw, st)

SpecAttendance == InitAttendance /\ [][NextAttendance]_vars

\* C13: every persisted attendance entry carries the hours_worked that the
\* derivation gives for its own times and status and its employee's type and
\* working_hours, whatever value the writer supplied
C13_HoursAlwaysDerived ==
    \A a \in attendance :
        a.hours_worked = calculate_hours(a.time_in, a.time_out, a.status,
                                         employees[a.employee])

\* a writer supplied 99.99 hours for a 09:00 to 17:30 entry, stored as 8.50,
\* next to an entry of an hourly employee without times, stored as null
C13_Witness ==
    /\ last.op = "attendance_save" /\ last.supplied = Some(9999)
    /\ \E a \in attendance :
          /\ a.employee = last.employee
          /\ a.time_in = Some(32400) /\ a.time_out = Some(63000)
          /\ a.hours_worked = Some(850)
    /\ \E a \in attendance : a.employee = "E2" /\ IsNone(a.hours_worked)

(***************************************************************************)
(* Leave.save() and the receivers of signals.py                            *)
(***************************************************************************)

\* the fields detect_leave_amend compares, in its order
amend_fields ==
    <<"start_date", "end_date", "is_paid", "status", "leave_type", "days_count", "reason">>

\* the attributes a Leave object has
leave_attributes ==
    {"employee", "date", "leave_type", "is_paid", "status", "reason", "amended"}

\* detect_leave_amend(instance) for an instance with a pk whose stored row
\* is old: getattr raises at the first compared field that Leave lacks;
\* otherwise amended is set when a compared field differs
RECURSIVE compare_fields(_, _, _, _)
compare_fields(old, instance, i, changed) ==
    IF i > Len(amend_fields)
    THEN [raised |-> "", instance |-> IF changed THEN [instance EXCEPT !.amended = TRUE]
                                      ELSE instance]
    ELSE IF amend_fields[i] \notin leave_attributes
    THEN [raised |-> "AttributeError", instance |-> instance]
    ELSE compare_fields(old, instance, i + 1,
                        changed \/ old[amend_fields[i]] # instance[amend_fields[i]])

detect_leave_amend(old, instance) == compare_fields(old, instance, 1, FALSE)

\* leave_post_save(instance): the details string reads instance.start_date
leave_post_save == IF "start_date" \in leave_attributes THEN "" ELSE "AttributeError"

\* whether the leave table changed under a calculation in progress
leave_written(lvs) ==
    [c \in Callers |-> IF calls[c].pc = "idle" \/ lvs = leaves THEN calls[c]
                       ELSE [calls[c] EXCEPT !.stale = TRUE]]

\* Leave(...).save() of a new object (no pk).  connected: signals.py has
\* been imported, so its receivers run; atomic: the caller wraps the save in
\* a transaction (as the admin does), so an error after the INSERT undoes it
leave_create(e, d, lt, paid, st, reason, connected, atomic) ==
    \E raised \in {IF \E l \in leaves : l.employee = e /\ l.date = d
                   THEN "IntegrityError"
                   ELSE IF connected THEN leave_post_save ELSE ""} :
        /\ leaves' = IF raised = "IntegrityError" \/ (raised # "" /\ atomic) THEN leaves
                     ELSE leaves \cup {LeaveRow(e, d, lt, paid, st, reason, FALSE)}
        /\ last' = Returned("leave_create", e, d.year, d.month, raised)
                      @@ [date |-> d, connected |-> connected, changed |-> FALSE]
        /\ calls' = leave_written(leaves')
        /\ UNCHANGED <<employees, settings, attendance, salary_records>>

\* save() of the object loaded from the stored row of (e, d), with its
\* mutable fields set to the given values
leave_update(e, d, lt, paid, st, reason, connected, atomic) ==
    \E old \in {l \in leaves : l.employee = e /\ l.date = d} :
    \E pre \in {IF connected
                THEN detect_leave_amend(old, LeaveRow(e, d, lt, paid, st, reason, old.amended))
                ELSE [raised |-> "",
                      instance |-> LeaveRow(e, d, lt, paid, st, reason, old.amended)]} :
    \E raised \in {IF pre.raised # "" THEN pre.raised
                   ELSE IF connected THEN leave_post_save ELSE ""} :
        /\ leaves' = IF pre.raised # "" \/ (raised # "" /\ atomic) THEN leaves
                     ELSE (leaves \ {old}) \cup {pre.instance}
        /\ last' = Returned("leave_update", e, d.year, d.month, raised)
                      @@ [date |-> d, connected |-> connected,
                          changed |-> \/ old.is_paid # paid \/ old.status # st
                                      \/ old.leave_type # lt \/ old.reason # reason]
        /\ calls' = leave_written(leaves')
        /\ UNCHANGED <<employees, settings, attendance, salary_records>>

(***************************************************************************)
(* SpecLeave: leave rows of one employee are created and edited            *)
(***************************************************************************)

LeaveDates == {Date(PayrollYear, PayrollMonth, 1)}

InitLeave ==
    /\ employees \in [{"E1"} -> {EmployeeInput("full_time", 3000000, 0, FALSE)}]
    /\ settings = SettingsInput(None, None)
    /\ attendance = {}
    /\ leaves = {}
    /\ salary_records = {}
    /\ last = NoCall
    /\ calls = [c \in Callers |-> Idle]

NextLeave ==
    \E d \in LeaveDates, lt \in {"normal", "sick"}, paid \in BOOLEAN,
       st \in LEAVE_STATUS, reason \in {"", "flu"}, connected \in BOOLEAN,
       atomic \in BOOLEAN :
        \/ leave_create("E1", d, lt, paid, st, reason, connected, atomic)
        \/ leave_update("E1", d, lt, paid, st, reason, connected, atomic)

SpecLeave == InitLeave /\ [][NextLeave]_vars

\* C14 as claimed: a save of an existing leave row with a changed mutable
\* field succeeds and leaves the row stored with amended = true; a creation
\* stores amended = false; a save that changes nothing does not set the flag
C14_AmendedFlag ==
    /\ last.op = "leave_update" /\ last.changed =>
          /\ last.raised = ""
          /\ \E l \in leaves : l.employee = last.employee /\ l.date = last.date /\ l.amended
    /\ last.op = "leave_create" /\ last.raised = "" =>
          \E l \in leaves : l.employee = last.employee /\ l.date = last.date /\ ~l.amended

(***************************************************************************)
(* Employee.save() and the views that call it                              *)
(***************************************************************************)

\* Employee.save(): "if not self.paid_leave_quota" is true for 0, and the
\* quota is then set from the employee_type; the row is written after that
Employee_save(self) ==
    IF self.paid_leave_quota = 0
    THEN [self EXCEPT !.paid_leave_quota =
             IF self.employee_type = "full_time" THEN 22
             ELSE IF self.employee_type = "part_time" THEN 11
             ELSE 0]
    ELSE self

\* an Employee built with the given type; quota is None when the caller
\* passes no paid_leave_quota and the field default 0 applies
NewEmployee(type, quota) ==
    [EmployeeInput(type, 0, 0, FALSE) EXCEPT
        !.paid_leave_quota = IF IsNone(quota) THEN 0 ELSE quota[1]]

\* employee_create / Employee.objects.create: a valid form (an emp_id not in
\* use) or a constructor call, then save()
employee_create(e, type, quota) ==
    /\ e \notin DOMAIN employees
    /\ employees' = [x \in DOMAIN employees \cup {e} |->
                        IF x = e THEN Employee_save(NewEmployee(type, quota))
                        ELSE employees[x]]
    /\ last' = Returned("employee_create", e, 0, 0, "")
                  @@ [provided |-> quota, before |-> 0]
    /\ UNCHANGED <<settings, attendance, leaves, salary_records, calls>>

\* employee_edit: the form writes its fields on the stored instance, the
\* quota field among them, then save()
employee_edit(e, type, quota) ==
    /\ e \in DOMAIN employees
    /\ employees' = [employees EXCEPT ![e] =
                        Employee_save([@ EXCEPT !.employee_type = type,
                                                !.paid_leave_quota = quota])]
    /\ last' = Returned("employee_edit", e, 0, 0, "")
                  @@ [provided |-> Some(quota), before |-> employees[e].paid_leave_quota]
    /\ UNCHANGED <<settings, attendance, leaves, salary_records, calls>>

\* employee_toggle_active: is_active is flipped, then save()
employee_toggle_active(e) ==
    /\ e \in DOMAIN employees
    /\ employees' = [employees EXCEPT ![e] =
                        Employee_save([@ EXCEPT !.is_active = ~@])]
    /\ last' = Returned("employee_toggle_active", e, 0, 0, "")
                  @@ [provided |-> None, before |-> employees[e].paid_leave_quota]
    /\ UNCHANGED <<settings, attendance, leaves, salary_records, calls>>

(***************************************************************************)
(* SpecEmployee: employees are created, edited and toggled                 *)
(***************************************************************************)

EmployeeIds == {"E1", "E2"}

\* the quotas a caller provides: none, and 0, 5 and 22 given explicitly
QuotaInputs == {None, Some(0), Some(5), Some(22)}

InitEmployee ==
    /\ employees = [e \in {} |-> EmployeeInput("hourly", 0, 0, FALSE)]
    /\ settings = SettingsInput(None, None)
    /\ attendance = {}
    /\ leaves = {}
    /\ salary_records = {}
    /\ last = NoCall
    /\ calls = [c \in Callers |-> Idle]

NextEmployee ==
    \E e \in EmployeeIds :
        \/ \E type \in EMPLOYMENT_TYPES, quota \in QuotaInputs :
              employee_create(e, type, quota)
        \/ \E type \in EMPLOYMENT_TYPES, quota \in QuotaInputs \ {None} :
              employee_edit(e, type, quota[1])
        \/ employee_toggle_active(e)

SpecEmployee == InitEmployee /\ [][NextEmployee]_vars

\* C15 as claimed: a creation without a quota stores the default of the
\* type (22, 11, 0); a quota given explicitly, 0 included, is stored as
\* given; a later save that does not edit the quota leaves it as it was
C15_QuotaOnlyDefaultedAtCreation ==
    /\ last.op = "employee_create" =>
          employees[last.employee].paid_leave_quota =
              IF ~IsNone(last.provided) THEN last.provided[1]
              ELSE IF employees[last.employee].employee_type = "full_time" THEN 22
              ELSE IF employees[last.employee].employee_type = "part_time" THEN 11
              ELSE 0
    /\ last.op = "employee_edit" /\ last.provided = Some(last.before) =>
          employees[last.employee].paid_leave_quota = last.before
    /\ last.op = "employee_toggle_active" =>
          employees[last.employee].paid_leave_quota = last.before

(***************************************************************************)
(* SpecBonus: calculate_for_month over employees and global_bonus          *)
(* settings of every kind                                                  *)
(***************************************************************************)

\* an own bonus of 100.00 with and without eligibility, no own bonus, and
\* a negative own bonus (the field has no minimum)
BonusEmployees ==
    { EmployeeInput("full_time", 3000000, 10000, TRUE),
      EmployeeInput("full_time", 3000000, 10000, FALSE),
      EmployeeInput("full_time", 3000000, 0, TRUE),
      EmployeeInput("full_time", 3000000, -500, TRUE) }

\* global_bonus: no row, an empty value, a blank, a word
UnusableBonus == {None, Some(<<>>), Some(<<" ">>), Some(<<"a", "b", "c">>)}

\* and 50, 0.015, -5, 1e2 and Infinity, which Decimal() accepts
GlobalBonusInputs ==
    UnusableBonus \cup
    { Some(<<"5", "0">>), Some(<<"0", ".", "0", "1", "5">>), Some(<<"-", "5">>),
      Some(<<"1", "e", "2">>), Some(<<"I", "n", "f", "i", "n", "i", "t", "y">>) }

InitBonus ==
    /\ employees \in [{"E1"} -> BonusEmployees]
    /\ settings \in {SettingsInput(None, gb) : gb \in GlobalBonusInputs}
    /\ attendance \in {{}} \cup
          {{AttendanceRow("E1", RaceDate, None, None, st, employees["E1"])} :
              st \in {"present", "late"}}
    /\ leaves \in {{}, {LeaveRow("E1", RaceDate, "normal", FALSE, "approved", "", FALSE)}}
    /\ salary_records = {}
    /\ last = NoCall
    /\ calls = [c \in Callers |-> Idle]

NextBonus == calculate_for_month("E1", PayrollYear, PayrollMonth)

SpecBonus == InitBonus /\ [][NextBonus]_vars

\* the global_bonus setting in hundredths, rounded half-even (0 when unusable)
RefGlobalCents ==
    CASE settings["global_bonus"] = Some(<<"5", "0">>) -> 5000
      [] settings["global_bonus"] = Some(<<"0", ".", "0", "1", "5">>) -> 2
      [] settings["global_bonus"] = Some(<<"-", "5">>) -> -500
      [] settings["global_bonus"] = Some(<<"1", "e", "2">>) -> 10000
      [] OTHER -> 0

\* the global_bonus setting in thousandths, exactly
RefGlobalMills ==
    CASE settings["global_bonus"] = Some(<<"5", "0">>) -> 50000
      [] settings["global_bonus"] = Some(<<"0", ".", "0", "1", "5">>) -> 15
      [] settings["global_bonus"] = Some(<<"-", "5">>) -> -5000
      [] settings["global_bonus"] = Some(<<"1", "e", "2">>) -> 100000
      [] OTHER -> 0

\* the selection order of the bonus, and no error from an unusable setting
\* (IntegrityError is the refusal of a second row for the month)
BonusOrder ==
    /\ Computed =>
          Rec.bonus_applied =
              IF ~Emp.bonus_eligible THEN 0
              ELSE IF UnpaidLeaves # {} \/ MonthAttendance("late") # {} THEN 0
              ELSE IF Emp.bonus_amount > 0 THEN Emp.bonus_amount
              ELSE RefGlobalCents
    /\ last.op = "calculate_for_month" /\ settings["global_bonus"] \in UnusableBonus =>
          last.raised \in {"", "IntegrityError"}

\* C16 as claimed: the bonus is 0 when not eligible, else the own bonus
\* when positive, else the global_bonus setting, 0 without an error when
\* that is absent, empty or unparsable; and bonus_applied is always 0, the
\* own bonus_amount or the global_bonus value itself
C16_AsClaimed ==
    /\ BonusOrder
    /\ Computed =>
          \/ Rec.bonus_applied \in {0, Emp.bonus_amount}
          \/ 10 * Rec.bonus_applied = RefGlobalMills

\* C16: the bonus is 0 when not eligible, else the own bonus when positive,
\* else the global_bonus setting, 0 without an error when that is absent,
\* empty or unparsable; and bonus_applied is always 0, the own bonus_amount
\* or the global_bonus value rounded to 2 decimals
C16_BonusSelection ==
    /\ BonusOrder
    /\ Computed => Rec.bonus_applied \in {0, Emp.bonus_amount, RefGlobalCents}

\* an eligible employee without an own bonus and without disqualification
\* was paid the global bonus of 0.015 as 0.02
C16_Witness ==
    /\ Computed /\ Emp.bonus_eligible /\ Emp.bonus_amount = 0
    /\ settings["global_bonus"] = Some(<<"0", ".", "0", "1", "5">>)
    /\ UnpaidLeaves = {} /\ MonthAttendance("late") = {}
    /\ Rec.bonus_applied = 2

(***************************************************************************)
(* SpecMonth: calculate_for_month for February 2024 and February 2023 over *)
(* ledgers with rows inside and outside the month, of two employees        *)
(***************************************************************************)

MonthPeriods == {[year |-> 2024, month |-> 2], [year |-> 2023, month |-> 2]}

MonthEmployees ==
    { EmployeeInput("full_time", 3000000, 10000, TRUE),
      EmployeeInput("hourly", 1500, 10000, TRUE) }

\* E1's entries of the two Februaries: per date the statuses to choose
\* from; present rows are 09:00 to 17:30
AttendanceChoices ==
    { [date |-> Date(2024, 2, 1), statuses |-> {"absent", "late", "present"}],
      [date |-> Date(2024, 2, 29), statuses |-> {"absent"}],
      [date |-> Date(2023, 2, 28), statuses |-> {"absent"}] }

\* attendance rows that belong to neither February of E1: the day before
\* and the day after the month, and another employee's entry
OtherAttendance ==
    { AttendanceInstance("E1", Date(2024, 1, 31), None, None, None, "late"),
      AttendanceInstance("E1", Date(2024, 3, 1), None, None, None, "absent"),
      AttendanceInstance("E1", Date(2023, 3, 1), None, None, None, "late"),
      AttendanceInstance("E2", Date(2024, 2, 1), None, None, None, "late") }

\* unpaid leave rows that are not approved leaves of E1 in a February
OtherLeaves ==
    { LeaveRow("E1", Date(2024, 2, 15), "normal", FALSE, "pending", "", FALSE),
      LeaveRow("E1", Date(2024, 2, 16), "normal", FALSE, "rejected", "", FALSE),
      LeaveRow("E1", Date(2024, 3, 1), "normal", FALSE, "approved", "", FALSE),
      LeaveRow("E2", Date(2024, 2, 29), "normal", FALSE, "approved", "", FALSE) }

\* none of the other rows, one of them, or all of them
OtherRows ==
    {[attendance |-> {}, leaves |-> {}],
     [attendance |-> OtherAttendance, leaves |-> OtherLeaves]}
    \cup {[attendance |-> {a}, leaves |-> {}] : a \in OtherAttendance}
    \cup {[attendance |-> {}, leaves |-> {l}] : l \in OtherLeaves}

InitMonth ==
    /\ \E emp \in MonthEmployees :
          employees = [e \in {"E1", "E2"} |-> emp]
    /\ settings = SettingsInput(None, None)
    /\ \E af \in [AttendanceChoices -> ATTENDANCE_STATUS \cup {"none"}],
          own \in {{}, {LeaveRow("E1", Date(2024, 2, 29), "normal", FALSE, "approved", "", FALSE)}},
          other \in OtherRows :
          /\ \A c \in AttendanceChoices : af[c] \in c.statuses \cup {"none"}
          /\ attendance = other.attendance \cup
                {AttendanceRow("E1", c.date,
                               IF af[c] = "present" THEN Some(32400) ELSE None,
                               IF af[c] = "present" THEN Some(63000) ELSE None,
                               af[c], employees["E1"]) :
                    c \in {x \in AttendanceChoices : af[x] # "none"}}
          /\ leaves = own \cup other.leaves
    /\ salary_records = {}
    /\ last = NoCall
    /\ calls = [c \in Callers |-> Idle]

NextMonth == \E k \in MonthPeriods : calculate_for_month("E1", k.year, k.month)

SpecMonth == InitMonth /\ [][NextMonth]_vars

\* a date from the 1st to the last calendar day of February of the year
InFebruary(d, y) ==
    /\ d.year = y /\ d.month = 2
    /\ 1 <= d.day /\ d.day <= (IF y = 2024 THEN 29 ELSE 28)

\* E1's attendance entries and approved leave entries of that February
OwnAttendance(y) == {a \in attendance : a.employee = "E1" /\ InFebruary(a.date, y)}
OwnApprovedLeaves(y) ==
    {l \in leaves : l.employee = "E1" /\ InFebruary(l.date, y) /\ l.status = "approved"}

\* what the calculation is to see of them
OwnReads(y) ==
    [unpaid_leaves |-> Cardinality({l \in OwnApprovedLeaves(y) : ~l.is_paid}),
     absent |-> Cardinality({a \in OwnAttendance(y) : a.status = "absent"}),
     half_day |-> Cardinality({a \in OwnAttendance(y) : a.status = "half_day"}),
     present |-> Cardinality({a \in OwnAttendance(y) : a.status = "present"}),
     total_hours |-> IF \A a \in OwnAttendance(y) : IsNone(a.hours_worked) THEN None
                     ELSE Some(RefHours(OwnAttendance(y))),
     late |-> \E a \in OwnAttendance(y) : a.status = "late",
     working_days_per_month |-> PyNum(22),
     global_bonus |-> None]

\* C17: every stored record is the one computed from the employee's own
\* attendance entries and approved leave entries dated from the 1st to the
\* last day of its month (the 29th in February 2024, the 28th in February
\* 2023); no other row of the ledgers has any effect on a stored field
C17_OnlyOwnMonthCounts ==
    \A r \in salary_records :
        r = assign_fields(NewSalaryRecord("E1", r.year, r.month),
                          calculate_fields(employees["E1"], OwnReads(r.year)))

\* February 2024 was computed for a full_time employee from a ledger with
\* an absence on the 29th, next to an absence on 1 March, a late entry on
\* 31 January, a late entry of another employee and a pending leave
C17_Witness ==
    /\ last.op = "calculate_for_month" /\ last.raised = "" /\ last.year = 2024
    /\ employees["E1"].employee_type = "full_time"
    /\ \E a \in attendance :
          a.employee = "E1" /\ a.date = Date(2024, 2, 29) /\ a.status = "absent"
    /\ \E a \in attendance : a.employee = "E1" /\ a.date = Date(2024, 3, 1)
    /\ \E a \in attendance : a.employee = "E1" /\ a.date = Date(2024, 1, 31)
    /\ \E a \in attendance : a.employee = "E2"
    /\ \E l \in leaves : l.employee = "E1" /\ l.status = "pending"
    /\ \E l \in leaves : l.employee = "E1" /\ l.date = Date(2024, 3, 1)
    /\ \E r \in salary_records :
          r.year = 2024 /\ r.unpaid_leave_days = 100 /\ r.deductions = 136364

\* C18 as claimed: the stored fields reconcile to the cent,
\* net_salary = gross_salary - deductions + bonus_applied
C18_StoredFieldsReconcile ==
    Computed => Rec.net_salary = Rec.gross_salary - Rec.deductions + Rec.bonus_applied

====
